---- MODULE Spec2Model ----
(***************************************************************************)
(* Model of renderSimpleMarkdown (src/utils/markdownRenderer.ts).          *)
(*                                                                         *)
(* A string is a sequence of one-character strings.  The markup that the   *)
(* renderer emits from its fixed templates is kept as one token per        *)
(* template fragment, spelled exactly as in the source.  No template that  *)
(* is re-scanned by a later inline rule holds a character that any later   *)
(* rule matches literally (star, underscore, tilde, backtick, bracket,     *)
(* parenthesis, line terminator), so a later rule can neither start nor    *)
(* end a match inside a template: for the                                  *)
(* regexes a template token behaves as a run of ordinary characters, each  *)
(* matched by `.` and by [^`].                                             *)
(***************************************************************************)
EXTENDS Integers, Sequences, FiniteSets, TLC

VARIABLES text, lines, i, inList, html, pc, blocks, other, overlapped,
          inputValue, stagedImage, stagedFile, sent,
          voiceSettings, stored, isSettingsModalVisible, settings, calls,
          lastCall

\* the state of a call of renderSimpleMarkdown and of a second call
renderVars == <<text, lines, i, inList, html, pc, blocks, other, overlapped>>

\* the state of ChatInterface, and the calls of sendMessage it has made
chatVars == <<inputValue, stagedImage, stagedFile, sent>>

\* the voice settings of App, the item 'jiamVoiceSettings' of localStorage, the
\* state of SettingsModal, and the number of calls of handleSaveSettings and
\* handleToggleTts
voiceVars == <<voiceSettings, stored, isSettingsModalVisible, settings, calls>>

\* lastCall is a history of the components: the last handler called, its argument
\* and the state it was called in
appVars == <<chatVars, voiceVars, lastCall>>

vars == <<renderVars, appVars>>

(***************************************************************************)
(* Character classes of the regular expressions.                           *)
(***************************************************************************)
\* \s restricted to the whitespace characters the inputs use
Whitespace == {" ", "\t"}

\* \d
Digits == {"0", "1", "2", "3", "4", "5", "6", "7", "8", "9"}

\* the class [-*_] of the horizontal-rule patterns
RuleChars == {"-", "*", "_"}

\* the class [\-*] of the unordered-list pattern
BulletChars == {"-", "*"}

\* the backtick character (a string literal cannot hold it): one element of a
\* string like every other character, distinct from all of them
Backtick == "U+0060"

\* what `.` does not match
LineTerminators == {"\n", "\r"}

Dot(c) == c \notin LineTerminators

Min(a, b) == IF a < b THEN a ELSE b

\* s.substring(from - 1): the suffix of s that starts at 1-based position from
Suffix(s, from) == IF from > Len(s) THEN <<>> ELSE SubSeq(s, from, Len(s))

\* true when s holds the characters of pat at position p
At(s, p, pat) ==
    /\ p >= 1
    /\ p + Len(pat) - 1 <= Len(s)
    /\ \A k \in 1..Len(pat) : s[p + k - 1] = pat[k]

\* number of leading elements of s, from position p, that lie in the class cls
RECURSIVE RunLen(_, _, _)
RunLen(s, p, cls) ==
    IF p > Len(s) \/ s[p] \notin cls THEN 0 ELSE 1 + RunLen(s, p + 1, cls)

(***************************************************************************)
(* String.prototype.replace with a global regex: scan left to right, at    *)
(* each position try the pattern, on a match emit the replacement and go   *)
(* on after the match, otherwise copy one element.  A match attempt at     *)
(* position p gives [ok, last, out]: whether the pattern matches there,    *)
(* the position of the last matched element, and the replacement.          *)
(***************************************************************************)
NoMatch == [ok |-> FALSE, last |-> 0, out |-> <<>>]

(***************************************************************************)
(* Templates of applyInlineFormatting.                                     *)
(***************************************************************************)
StrongOpen == "<strong class=\"font-semibold text-white\">"
StrongClose == "</strong>"
EmOpen == "<em>"
EmClose == "</em>"
DelOpen == "<del>"
DelClose == "</del>"
CodeOpen == "<code class=\"font-code bg-black/30 px-1 py-0.5 rounded-sm text-sm text-cyan-300\">"
CodeClose == "</code>"
AnchorHref == "<a href=\""
AnchorAttrs == "\" target=\"_blank\" rel=\"noopener noreferrer\" class=\"text-cyan-400 hover:underline\">"
AnchorClose == "</a>"

InlineTags ==
    {StrongOpen, StrongClose, EmOpen, EmClose, DelOpen, DelClose,
     CodeOpen, CodeClose, AnchorHref, AnchorAttrs, AnchorClose}

(***************************************************************************)
(* The three escaping replacements, in the order of the source.            *)
(***************************************************************************)
EscapeAmp(s, p) ==
    IF s[p] = "&" THEN [ok |-> TRUE, last |-> p, out |-> <<"&", "a", "m", "p", ";">>]
    ELSE NoMatch

\* the escaping of '<' left out
EscapeLtNone(s, p) == NoMatch

EscapeLt(s, p) ==
    IF s[p] = "<" THEN [ok |-> TRUE, last |-> p, out |-> <<"&", "l", "t", ";">>]
    ELSE NoMatch

EscapeGt(s, p) ==
    IF s[p] = ">" THEN [ok |-> TRUE, last |-> p, out |-> <<"&", "g", "t", ";">>]
    ELSE NoMatch

(***************************************************************************)
(* The smallest q in from..Len(s) at which the closing delimiter close     *)
(* stands, every element before it (from `from`) being matched by `.`;     *)
(* 0 when the lazy group runs into a line terminator or the end first.     *)
(***************************************************************************)
RECURSIVE LazyDotUntil(_, _, _)
LazyDotUntil(s, from, close) ==
    IF from + Len(close) - 1 > Len(s) THEN 0
    ELSE IF At(s, from, close) THEN from
    ELSE IF ~Dot(s[from]) THEN 0
    ELSE LazyDotUntil(s, from + 1, close)

\* /(\*\*|__)(.*?)\1/
BoldMatch(s, p) ==
    IF At(s, p, <<"*", "*">>) \/ At(s, p, <<"_", "_">>)
    THEN LET d == <<s[p], s[p]>>
             q == LazyDotUntil(s, p + 2, d)
         IN  IF q = 0 THEN NoMatch
             ELSE [ok |-> TRUE, last |-> q + 1,
                   out |-> <<StrongOpen>> \o SubSeq(s, p + 2, q - 1) \o <<StrongClose>>]
    ELSE NoMatch

\* /(\*|_)(.*?)\1/
ItalicMatch(s, p) ==
    IF s[p] \in {"*", "_"}
    THEN LET q == LazyDotUntil(s, p + 1, <<s[p]>>)
         IN  IF q = 0 THEN NoMatch
             ELSE [ok |-> TRUE, last |-> q,
                   out |-> <<EmOpen>> \o SubSeq(s, p + 1, q - 1) \o <<EmClose>>]
    ELSE NoMatch

\* /~~(.*?)~~/
DelMatch(s, p) ==
    IF At(s, p, <<"~", "~">>)
    THEN LET q == LazyDotUntil(s, p + 2, <<"~", "~">>)
         IN  IF q = 0 THEN NoMatch
             ELSE [ok |-> TRUE, last |-> q + 1,
                   out |-> <<DelOpen>> \o SubSeq(s, p + 2, q - 1) \o <<DelClose>>]
    ELSE NoMatch

\* the smallest q >= from with s[q] a backtick, 0 when there is none
RECURSIVE NextBacktick(_, _)
NextBacktick(s, from) ==
    IF from > Len(s) THEN 0
    ELSE IF s[from] = Backtick THEN from
    ELSE NextBacktick(s, from + 1)

\* /`([^`]+?)`/ : at least one element other than a backtick, line terminators included
CodeMatch(s, p) ==
    IF s[p] = Backtick
    THEN LET q == NextBacktick(s, p + 1)
         IN  IF q = 0 \/ q = p + 1 THEN NoMatch
             ELSE [ok |-> TRUE, last |-> q,
                   out |-> <<CodeOpen>> \o SubSeq(s, p + 1, q - 1) \o <<CodeClose>>]
    ELSE NoMatch

(***************************************************************************)
(* /\[(.*?)\]\((.*?)\)/ : the label grows lazily to the first "](" after   *)
(* which a ")" is found on the same line; a "](" with no ")" after it is   *)
(* given up and the label grows on.  The result is <<q, r>>, the positions *)
(* of "]" and of ")", or <<0, 0>>.                                         *)
(***************************************************************************)
RECURSIVE LinkEnds(_, _)
LinkEnds(s, from) ==
    IF from + 1 > Len(s) THEN <<0, 0>>
    ELSE IF At(s, from, <<"]", "(">>) /\ LazyDotUntil(s, from + 2, <<")">>) # 0
         THEN <<from, LazyDotUntil(s, from + 2, <<")">>)>>
    ELSE IF ~Dot(s[from]) THEN <<0, 0>>
    ELSE LinkEnds(s, from + 1)

LinkMatch(s, p) ==
    IF s[p] = "["
    THEN LET e == LinkEnds(s, p + 1)
         IN  IF e[1] = 0 THEN NoMatch
             ELSE [ok |-> TRUE, last |-> e[2],
                   out |-> <<AnchorHref>> \o SubSeq(s, e[1] + 2, e[2] - 1) \o <<AnchorAttrs>>
                           \o SubSeq(s, p + 1, e[1] - 1) \o <<AnchorClose>>]
    ELSE NoMatch

\* the match attempt of one of the eight replacements, named by its pattern
MatchAt(rule, s, p) ==
    CASE rule = "&" -> EscapeAmp(s, p)
      [] rule = "<" -> EscapeLt(s, p)
      [] rule = ">" -> EscapeGt(s, p)
      [] rule = "bold" -> BoldMatch(s, p)
      [] rule = "italic" -> ItalicMatch(s, p)
      [] rule = "del" -> DelMatch(s, p)
      [] rule = "code" -> CodeMatch(s, p)
      [] rule = "link" -> LinkMatch(s, p)

RECURSIVE ReplaceFrom(_, _, _)
ReplaceFrom(rule, s, p) ==
    IF p > Len(s) THEN <<>>
    ELSE LET m == MatchAt(rule, s, p)
         IN  IF m.ok THEN m.out \o ReplaceFrom(rule, s, m.last + 1)
             ELSE <<s[p]>> \o ReplaceFrom(rule, s, p + 1)

\* s.replace(/.../g, ...)
ReplaceAll(rule, s) == ReplaceFrom(rule, s, 1)

\* the escaping prefix of applyInlineFormatting
EscapeHtml(line) == ReplaceAll(">", ReplaceAll("<", ReplaceAll("&", line)))

\* the italic replacement placed before the bold one
applyInlineFormattingItalicFirst(line) ==
    LET italic == ReplaceAll("italic", EscapeHtml(line))
        bold == ReplaceAll("bold", italic)
        del == ReplaceAll("del", bold)
        code == ReplaceAll("code", del)
    IN  ReplaceAll("link", code)

applyInlineFormatting(line) ==
    LET bold == ReplaceAll("bold", EscapeHtml(line))
        italic == ReplaceAll("italic", bold)
        del == ReplaceAll("del", italic)
        code == ReplaceAll("code", del)
    IN  ReplaceAll("link", code)

(***************************************************************************)
(* Line-level helpers of renderSimpleMarkdown.                             *)
(***************************************************************************)
\* text.split('\n')
RECURSIVE SplitFrom(_, _, _)
SplitFrom(s, p, cur) ==
    IF p > Len(s) THEN <<cur>>
    ELSE IF s[p] = "\n" THEN <<cur>> \o SplitFrom(s, p + 1, <<>>)
    ELSE SplitFrom(s, p + 1, Append(cur, s[p]))

Split(s) == SplitFrom(s, 1, <<>>)

\* parts.join('\n')
RECURSIVE Join(_)
Join(parts) ==
    IF Len(parts) = 0 THEN <<>>
    ELSE IF Len(parts) = 1 THEN parts[1]
    ELSE parts[1] \o <<"\n">> \o Join(Tail(parts))

\* number of trailing elements of s that are whitespace
RECURSIVE TrailingWs(_)
TrailingWs(s) ==
    IF Len(s) = 0 \/ s[Len(s)] \notin Whitespace THEN 0
    ELSE 1 + TrailingWs(SubSeq(s, 1, Len(s) - 1))

\* a trim that strips nothing
TrimNone(s) == s

\* s.trim()
Trim(s) ==
    LET lead == RunLen(s, 1, Whitespace)
    IN  IF lead = Len(s) THEN <<>>
        ELSE SubSeq(s, lead + 1, Len(s) - TrailingWs(s))

\* the heading pattern with the quantifier {1,6}
HeadingLevelsSix(line) ==
    {k \in 1..6 : RunLen(line, 1, {"#"}) >= k /\ k < Len(line) /\ line[k + 1] \in Whitespace}

\* line.match(/^(#{1,3})\s+(.*)/): the greedy #{1,3} gives characters back
\* until a whitespace character follows it
HeadingLevels(line) ==
    {k \in 1..3 : RunLen(line, 1, {"#"}) >= k /\ k < Len(line) /\ line[k + 1] \in Whitespace}

Max(S) == CHOOSE x \in S : \A y \in S : y <= x

headingMatch(line) ==
    IF HeadingLevels(line) = {} THEN [ok |-> FALSE, level |-> 0, content |-> <<>>]
    ELSE LET level == Max(HeadingLevels(line))
             ws == RunLen(line, level + 1, Whitespace)
         IN  [ok |-> TRUE, level |-> level, content |-> Suffix(line, level + ws + 1)]

\* line.match(/^>\s?(.*)/)
blockquoteMatch(line) ==
    IF Len(line) >= 1 /\ line[1] = ">"
    THEN [ok |-> TRUE, content |-> Suffix(line, 2 + Min(1, RunLen(line, 2, Whitespace)))]
    ELSE [ok |-> FALSE, content |-> <<>>]

\* line.match(/^[-*_]{3,}$/)
hrMatch(line) == Len(line) >= 3 /\ RunLen(line, 1, RuleChars) = Len(line)

\* line.match(/^(\s*)[\-*]\s+(.*)/)
ulMatch(line) ==
    LET lead == RunLen(line, 1, Whitespace)
        ws == RunLen(line, lead + 2, Whitespace)
    IN  IF lead < Len(line) /\ line[lead + 1] \in BulletChars /\ ws >= 1
        THEN [ok |-> TRUE, content |-> Suffix(line, lead + 2 + ws)]
        ELSE [ok |-> FALSE, content |-> <<>>]

\* line.match(/^(\s*)\d+\.\s+(.*)/)
olMatch(line) ==
    LET lead == RunLen(line, 1, Whitespace)
        num == RunLen(line, lead + 1, Digits)
        dot == lead + num + 1
        ws == RunLen(line, dot + 1, Whitespace)
    IN  IF num >= 1 /\ dot <= Len(line) /\ line[dot] = "." /\ ws >= 1
        THEN [ok |-> TRUE, content |-> Suffix(line, dot + 1 + ws)]
        ELSE [ok |-> FALSE, content |-> <<>>]

\* lines[i + 1].startsWith('>')
startsWithGt(line) == Len(line) >= 1 /\ line[1] = ">"

\* the alternative [-*_]{3,} of the look-ahead: anchored at the start only
LookaheadRule(nextLine) == RunLen(nextLine, 1, RuleChars) >= 3

\* the alternative #{1,3}\s+.* of the look-ahead
LookaheadHeading(nextLine) == headingMatch(nextLine).ok

\* a look-ahead that ends the paragraph at a blank line only
paragraphBreakBlankOnly(nextLine) == Trim(nextLine) = <<>>

\* the look-ahead of the paragraph loop: nextLine.trim() === '' ||
\* nextLine.match(/^(#{1,3}\s+.*|>\s?.*|[-*_]{3,}|(\s*)[\-*]\s+.*|(\s*)\d+\.\s+.*)/)
paragraphBreak(nextLine) ==
    \/ Trim(nextLine) = <<>>
    \/ LookaheadHeading(nextLine)
    \/ blockquoteMatch(nextLine).ok
    \/ LookaheadRule(nextLine)
    \/ ulMatch(nextLine).ok
    \/ olMatch(nextLine).ok

\* the branch of the main loop that takes the line: the tests in source order
Classify(line) ==
    IF headingMatch(line).ok THEN "heading"
    ELSE IF blockquoteMatch(line).ok THEN "blockquote"
    ELSE IF hrMatch(line) THEN "hr"
    ELSE IF ulMatch(line).ok THEN "ul"
    ELSE IF olMatch(line).ok THEN "ol"
    ELSE IF Trim(line) # <<>> THEN "p"
    ELSE "blank"

(***************************************************************************)
(* Block templates.                                                        *)
(***************************************************************************)
HeadingOpen(level) ==
    IF level = 1 THEN "<h1 class=\"text-xl mt-5 mb-3 font-semibold text-white\">"
    ELSE IF level = 2 THEN "<h2 class=\"text-lg mt-4 mb-2 font-semibold text-white\">"
    ELSE "<h3 class=\"text-base mt-3 mb-1 font-semibold text-white\">"

HeadingClose(level) ==
    IF level = 1 THEN "</h1>" ELSE IF level = 2 THEN "</h2>" ELSE "</h3>"

BlockquoteOpen == "<blockquote class=\"border-l-4 border-cyan-500/50 pl-4 my-3 text-gray-300 italic bg-black/25 py-2 whitespace-pre-wrap\">"
BlockquoteClose == "</blockquote>"
Hr == "<hr class=\"my-4 border-gray-600\"/>"
UlOpen == "<ul class=\"list-disc list-outside space-y-2 my-3 pl-6\">"
OlOpen == "<ol class=\"list-decimal list-outside space-y-2 my-3 pl-6\">"
LiOpen == "<li>"
LiClose == "</li>"
POpen == "<p class=\"my-2 leading-relaxed\">"
PClose == "</p>"

\* `</${inList}>`
ListClose(kind) == IF kind = "ul" THEN "</ul>" ELSE "</ol>"

ListOpen(kind) == IF kind = "ul" THEN UlOpen ELSE OlOpen

\* a closeListIfNeeded that resets inList and emits no closing tag
closeListSilent(open) == <<>>

\* what closeListIfNeeded appends to html when the open list is `open`
closeListIfNeeded(open) == IF open # "null" THEN <<ListClose(open)>> ELSE <<>>

\* a blockquote that takes its first line only
QuoteEndFirstLine(ls, j) == j

\* index (0-based) of the last line of the blockquote that starts at line j:
\* while (i + 1 < lines.length && lines[i + 1].startsWith('>')) i++
RECURSIVE QuoteEnd(_, _)
QuoteEnd(ls, j) ==
    IF j + 1 < Len(ls) /\ startsWithGt(ls[j + 2]) THEN QuoteEnd(ls, j + 1) ELSE j

\* content of a following line of a blockquote: lines[i].substring(1).trim()
QuoteNext(line) == Trim(Suffix(line, 2))

\* index (0-based) of the last line of the paragraph that starts at line j
RECURSIVE ParagraphEnd(_, _)
ParagraphEnd(ls, j) ==
    IF j + 1 < Len(ls) /\ ~paragraphBreak(ls[j + 2]) THEN ParagraphEnd(ls, j + 1) ELSE j

(***************************************************************************)
(* Inputs.  Three bounded families of texts, and five small families of    *)
(* texts of one fixed form (a link, a bold span, blank lines, blockquote   *)
(* lines with whitespace, a code span):                                    *)
(*  - block texts: up to MaxLines lines, each a block prefix followed by a *)
(*    content;                                                             *)
(*  - line texts: every one-line string of up to MaxLineLen characters     *)
(*    over the characters the block patterns tell apart;                   *)
(*  - inline texts: every concatenation of up to MaxPieces inline pieces.  *)
(***************************************************************************)
MaxLines == 3
MaxLineLen == 5
MaxPieces == 4

BlockPrefixes ==
    {<<>>, <<"#", " ">>, <<"#", "#", "#", "#", " ">>, <<">">>, <<">", " ">>,
     <<"-", " ">>, <<"1", ".", " ">>, <<"-", "-", "-">>}

BlockContents == {<<>>, <<"a", "<", "&", ">">>}

LineShapes == {p \o c : p \in BlockPrefixes, c \in BlockContents}

LineAlphabet == {"#", " ", "a", "-", "*", "_"}

InlinePieces ==
    {<<"a">>, <<"<">>, <<"&">>, <<"*">>, <<"_">>, <<"*", "*">>, <<"~", "~">>, <<Backtick>>,
     <<"[">>, <<"]", "(">>, <<")">>, <<"\"">>}

\* all sequences of 1..n elements of S
SeqsUpTo(S, n) == UNION {[1..k -> S] : k \in 1..n}

RECURSIVE Flatten(_)
Flatten(parts) == IF Len(parts) = 0 THEN <<>> ELSE parts[1] \o Flatten(Tail(parts))

BlockTexts == {Join(ls) : ls \in SeqsUpTo(LineShapes, MaxLines)}

LineTexts == SeqsUpTo(LineAlphabet, MaxLineLen)

InlineTexts == {Flatten(ps) : ps \in SeqsUpTo(InlinePieces, MaxPieces)}

\* [label](url)
LinkLabels == {<<"a">>, <<"s", "i", "t", "e">>}

LinkUrls == {<<"a">>, <<"a", "&", "a">>, <<"a", "_", "b", "_", "c">>, <<"*", "a", "*">>}

Link(label, url) == <<"[">> \o label \o <<"]", "(">> \o url \o <<")">>

LinkTexts == {Link(l, u) : l \in LinkLabels, u \in LinkUrls}

\* **x** and __x__
BoldDelimiters == {<<"*", "*">>, <<"_", "_">>}

BoldContents ==
    {<<>>, <<"a">>, <<"-">>, <<"a", " ", "a">>, <<"<">>, <<"a", "\n", "a">>}

BoldTexts == {d \o x \o d : d \in BoldDelimiters, x \in BoldContents}

\* lines of whitespace only
BlankLines == {<<>>, <<" ">>, <<"\t", " ">>}

BlankTexts == {Join(ls) : ls \in SeqsUpTo(BlankLines, MaxLines)}

\* blockquote lines with whitespace around the content
QuoteLines == {<<">", "a">>, <<">", " ", "a">>, <<">", "a", " ">>, <<">", " ", " ", "a", " ">>}

QuoteTexts == {Join(ls) : ls \in SeqsUpTo(QuoteLines, MaxLines)}

\* a code span: x between two backticks
CodeContents ==
    {<<"a">>, <<"a", "<">>, <<"*", "*", "a", "*", "*">>, <<"*", "a", "*">>, <<"_", "a", "_">>,
     <<"~", "~", "a", "~", "~">>}

CodeSpan(x) == <<Backtick>> \o x \o <<Backtick>>

CodeTexts == {CodeSpan(x) : x \in CodeContents}

Inputs ==
    {<<>>} \cup BlockTexts \cup LineTexts \cup InlineTexts
        \cup LinkTexts \cup BoldTexts \cup BlankTexts \cup QuoteTexts \cup CodeTexts

(***************************************************************************)
(* The call renderSimpleMarkdown(text).  pc is the position in the         *)
(* function: "start" at entry, "loop" at the head of the while loop,       *)
(* "done" after return, when html is the returned string.  i is the        *)
(* 0-based line index of the source.  blocks is a history of the loop's    *)
(* iterations: the branch taken, the lines it consumed and the part of     *)
(* html it appended.                                                       *)
(***************************************************************************)
(***************************************************************************)
(* The components.  ChatInterface holds the text of the input box and the  *)
(* staged image and file; App holds the voice settings and saves them      *)
(* under 'jiamVoiceSettings'; SettingsModal holds a draft of the settings. *)
(* A handler runs as one step: the state it reads is the state of the      *)
(* render that created it and the step ends with the render that follows.  *)
(***************************************************************************)
Null == "null"

\* no handler has been called
NoOp == [op |-> "none"]

\* useState(''), useState<File | null>(null), useState<File | null>(null)
ChatInit ==
    /\ inputValue = ""
    /\ stagedImage = Null
    /\ stagedFile = Null
    /\ sent = <<>>

\* const defaultSettings = { ... }
defaultSettings ==
    [isWakeWordEnabled |-> TRUE, wakeWordSensitivity |-> 50, isTtsEnabled |-> FALSE]

\* the members that JSON.stringify writes, in the order of the object's keys
Stringify(s) ==
    <<[key |-> "isWakeWordEnabled", value |-> s.isWakeWordEnabled],
      [key |-> "wakeWordSensitivity", value |-> s.wakeWordSensitivity],
      [key |-> "isTtsEnabled", value |-> s.isTtsEnabled]>>

\* localStorage.setItem('jiamVoiceSettings', JSON.stringify(s))
SetItem(s) == [item |-> "text", json |-> Stringify(s)]

\* the value of member k of the parsed text, or d when the text has none
Member(json, k, d) ==
    LET at == {m \in 1..Len(json) : json[m].key = k}
    IN  IF at = {} THEN d ELSE json[Max(at)].value

\* { ...defaultSettings, ...parsed }
Merge(d, json) ==
    [isWakeWordEnabled |-> Member(json, "isWakeWordEnabled", d.isWakeWordEnabled),
     wakeWordSensitivity |-> Member(json, "wakeWordSensitivity", d.wakeWordSensitivity),
     isTtsEnabled |-> Member(json, "isTtsEnabled", d.isTtsEnabled)]

\* the initial voiceSettings: the saved item over the defaults; the defaults
\* when there is no item or JSON.parse throws
Load(st) == IF st.item = "text" THEN Merge(defaultSettings, st.json) ELSE defaultSettings

\* the app with nothing saved and no handler called
AppIdle ==
    /\ ChatInit
    /\ stored = [item |-> "absent", json |-> <<>>]
    /\ voiceSettings = defaultSettings
    /\ isSettingsModalVisible = FALSE
    /\ settings = defaultSettings
    /\ calls = 0
    /\ lastCall = NoOp

\* no second call
NoCall ==
    [text |-> <<>>, lines |-> <<>>, i |-> 0, inList |-> "null", html |-> <<>>,
     pc |-> "none", blocks |-> <<>>]

Init ==
    /\ text \in Inputs
    /\ lines = <<>>
    /\ i = 0
    /\ inList = "null"
    /\ html = <<>>
    /\ pc = "start"
    /\ blocks = <<>>
    /\ other = NoCall
    /\ overlapped = FALSE
    /\ AppIdle

\* an iteration that steps over the line after the ones it consumed
EmitSkipsLine(kind, last, out, open) ==
    /\ html' = html \o out
    /\ inList' = open
    /\ i' = last + 2
    /\ blocks' = Append(blocks, [kind |-> kind, first |-> i, last |-> last,
                                 from |-> Len(html) + 1, to |-> Len(html) + Len(out)])
    /\ UNCHANGED <<text, lines, pc, other, overlapped, appVars>>

\* one iteration that consumed lines i..last and appended out to html
Emit(kind, last, out, open) ==
    /\ html' = html \o out
    /\ inList' = open
    /\ i' = last + 1
    /\ blocks' = Append(blocks, [kind |-> kind, first |-> i, last |-> last,
                                 from |-> Len(html) + 1, to |-> Len(html) + Len(out)])
    /\ UNCHANGED <<text, lines, pc, other, overlapped, appVars>>

\* if (!text) return ''
ReturnEmpty ==
    /\ pc = "start"
    /\ text = <<>>
    /\ pc' = "done"
    /\ UNCHANGED <<text, lines, i, inList, html, blocks, other, overlapped, appVars>>

\* const lines = text.split('\n'); let html = ''; let inList = null; let i = 0
Begin ==
    /\ pc = "start"
    /\ text # <<>>
    /\ lines' = Split(text)
    /\ html' = <<>>
    /\ inList' = "null"
    /\ i' = 0
    /\ pc' = "loop"
    /\ UNCHANGED <<text, blocks, other, overlapped, appVars>>

InLoop(kind) == pc = "loop" /\ i < Len(lines) /\ Classify(lines[i + 1]) = kind

Heading ==
    /\ InLoop("heading")
    /\ LET m == headingMatch(lines[i + 1])
       IN  Emit("heading", i,
                closeListIfNeeded(inList) \o <<HeadingOpen(m.level)>>
                    \o applyInlineFormatting(m.content) \o <<HeadingClose(m.level)>>,
                "null")

Blockquote ==
    /\ InLoop("blockquote")
    /\ LET last == QuoteEnd(lines, i)
           quoteContent ==
               [k \in 1..(last - i + 1) |->
                   IF k = 1 THEN applyInlineFormatting(blockquoteMatch(lines[i + 1]).content)
                   ELSE applyInlineFormatting(QuoteNext(lines[i + k]))]
       IN  Emit("blockquote", last,
                closeListIfNeeded(inList) \o <<BlockquoteOpen>> \o Join(quoteContent)
                    \o <<BlockquoteClose>>,
                "null")

Rule ==
    /\ InLoop("hr")
    /\ Emit("hr", i, closeListIfNeeded(inList) \o <<Hr>>, "null")

\* a list item that reuses whatever list is open, of either kind
OpenListMerged(kind, open) == IF open = "null" THEN <<ListOpen(kind)>> ELSE <<>>

\* the opening of a list of the given kind unless that kind is open already
OpenList(kind, open) ==
    IF open # kind THEN closeListIfNeeded(open) \o <<ListOpen(kind)>> ELSE <<>>

UlItem ==
    /\ InLoop("ul")
    /\ Emit("ul", i,
            OpenList("ul", inList) \o <<LiOpen>>
                \o applyInlineFormatting(ulMatch(lines[i + 1]).content) \o <<LiClose>>,
            "ul")

OlItem ==
    /\ InLoop("ol")
    /\ Emit("ol", i,
            OpenList("ol", inList) \o <<LiOpen>>
                \o applyInlineFormatting(olMatch(lines[i + 1]).content) \o <<LiClose>>,
            "ol")

Paragraph ==
    /\ InLoop("p")
    /\ LET last == ParagraphEnd(lines, i)
           paragraphLines == SubSeq(lines, i + 1, last + 1)
       IN  Emit("p", last,
                closeListIfNeeded(inList) \o <<POpen>>
                    \o applyInlineFormatting(Join(paragraphLines)) \o <<PClose>>,
                "null")

\* a blank line that leaves the open list open
BlankKeepsList ==
    /\ InLoop("blank")
    /\ Emit("blank", i, <<>>, inList)

Blank ==
    /\ InLoop("blank")
    /\ Emit("blank", i, closeListIfNeeded(inList), "null")

\* the loop ends: closeListIfNeeded(); return html
Return ==
    /\ pc = "loop"
    /\ i >= Len(lines)
    /\ html' = html \o closeListIfNeeded(inList)
    /\ inList' = "null"
    /\ pc' = "done"
    /\ UNCHANGED <<text, lines, i, blocks, other, overlapped, appVars>>

Next ==
    \/ ReturnEmpty
    \/ Begin
    \/ Heading
    \/ Blockquote
    \/ Rule
    \/ UlItem
    \/ OlItem
    \/ Paragraph
    \/ Blank
    \/ Return

Spec == Init /\ [][Next]_vars

\* the texts of several lines and the one-line texts that are not also
\* covered by the line texts and the inline texts
FairInputs ==
    {<<>>} \cup BlockTexts \cup LinkTexts \cup BoldTexts \cup BlankTexts \cup QuoteTexts
        \cup CodeTexts

InitFair ==
    /\ text \in FairInputs
    /\ lines = <<>>
    /\ i = 0
    /\ inList = "null"
    /\ html = <<>>
    /\ pc = "start"
    /\ blocks = <<>>
    /\ other = NoCall
    /\ overlapped = FALSE
    /\ AppIdle

\* the call has not returned: the condition under which Next has a step
Running == pc # "done"

\* The function is synchronous: once called it keeps taking steps until it
\* returns.  This is weak fairness of Next, WF_vars(Next), with
\* ENABLED <<Next>>_vars written as Running.
FairSpec == InitFair /\ [][Next]_vars /\ ([]<>(~Running) \/ []<><<Next>>_vars)

(***************************************************************************)
(* Two calls.  other is the frame of a second call that is suspended while *)
(* the variables hold the frame of the running one; Switch suspends the    *)
(* running call and resumes the other at the point it had reached.         *)
(* overlapped records that both calls were inside their loops at once.     *)
(***************************************************************************)
Frame ==
    [text |-> text, lines |-> lines, i |-> i, inList |-> inList, html |-> html,
     pc |-> pc, blocks |-> blocks]

\* the open-list flag kept in one place for all calls
CallLocalsSharedList(f) == [f EXCEPT !.inList = inList]

\* what a resumed call finds in its locals: lines, i, inList and html are
\* declared inside the function, so each call has its own
CallLocals(f) == f

MidScan(f) == f.pc = "loop" /\ f.i > 0

Switch ==
    /\ other.pc # "none"
    /\ LET f == CallLocals(other)
       IN  /\ text' = f.text
           /\ lines' = f.lines
           /\ i' = f.i
           /\ inList' = f.inList
           /\ html' = f.html
           /\ pc' = f.pc
           /\ blocks' = f.blocks
    /\ other' = Frame
    /\ overlapped' = (overlapped \/ (MidScan(Frame) /\ MidScan(other)))
    /\ UNCHANGED appVars

MaxCallLines == 2

CallLines ==
    {<<>>, <<"a">>, <<"#", " ", "a">>, <<">", "a">>, <<"-", "-", "-">>, <<"-", " ", "a">>,
     <<"1", ".", " ", "a">>}

CallTexts == {<<>>} \cup {Join(ls) : ls \in SeqsUpTo(CallLines, MaxCallLines)}

\* the second call runs on the same text or on a text of one line
OtherTexts(t) == {t} \cup CallLines

InitTwo ==
    /\ text \in CallTexts
    /\ lines = <<>>
    /\ i = 0
    /\ inList = "null"
    /\ html = <<>>
    /\ pc = "start"
    /\ blocks = <<>>
    /\ other \in {[NoCall EXCEPT !.text = t, !.pc = "start"] : t \in OtherTexts(text)}
    /\ overlapped = FALSE
    /\ AppIdle

NextTwo ==
    \/ Next
    \/ Switch

SpecTwo == InitTwo /\ [][NextTwo]_vars

\* the output of the loop run on its own from line j with the list open
RECURSIVE scanAlone(_, _, _)
scanAlone(ls, j, open) ==
    IF j >= Len(ls) THEN closeListIfNeeded(open)
    ELSE LET line == ls[j + 1]
             kind == Classify(line)
         IN  CASE kind = "heading" ->
                      LET m == headingMatch(line)
                      IN  closeListIfNeeded(open) \o <<HeadingOpen(m.level)>>
                              \o applyInlineFormatting(m.content)
                              \o <<HeadingClose(m.level)>> \o scanAlone(ls, j + 1, "null")
               [] kind = "blockquote" ->
                      LET last == QuoteEnd(ls, j)
                          quoteContent ==
                              [k \in 1..(last - j + 1) |->
                                  IF k = 1
                                  THEN applyInlineFormatting(blockquoteMatch(line).content)
                                  ELSE applyInlineFormatting(QuoteNext(ls[j + k]))]
                      IN  closeListIfNeeded(open) \o <<BlockquoteOpen>>
                              \o Join(quoteContent) \o <<BlockquoteClose>>
                              \o scanAlone(ls, last + 1, "null")
               [] kind = "hr" ->
                      closeListIfNeeded(open) \o <<Hr>> \o scanAlone(ls, j + 1, "null")
               [] kind = "ul" ->
                      OpenList("ul", open) \o <<LiOpen>>
                          \o applyInlineFormatting(ulMatch(line).content) \o <<LiClose>>
                          \o scanAlone(ls, j + 1, "ul")
               [] kind = "ol" ->
                      OpenList("ol", open) \o <<LiOpen>>
                          \o applyInlineFormatting(olMatch(line).content) \o <<LiClose>>
                          \o scanAlone(ls, j + 1, "ol")
               [] kind = "p" ->
                      LET last == ParagraphEnd(ls, j)
                      IN  closeListIfNeeded(open) \o <<POpen>>
                              \o applyInlineFormatting(Join(SubSeq(ls, j + 1, last + 1)))
                              \o <<PClose>> \o scanAlone(ls, last + 1, "null")
               [] OTHER -> closeListIfNeeded(open) \o scanAlone(ls, j + 1, "null")

\* the string that a call running on its own returns
renderSimpleMarkdown(t) == IF t = <<>> THEN <<>> ELSE scanAlone(Split(t), 0, "null")

\* a call of renderSimpleMarkdown that has not begun
RenderIdle ==
    /\ text = <<>>
    /\ lines = <<>>
    /\ i = 0
    /\ inList = "null"
    /\ html = <<>>
    /\ pc = "start"
    /\ blocks = <<>>
    /\ other = NoCall
    /\ overlapped = FALSE

(***************************************************************************)
(* ChatInterface.                                                          *)
(***************************************************************************)
MaxSends == 2

Files == {"photo.png", "notes.pdf"}

InputValues == {"", "hi"}

ChatState == [inputValue |-> inputValue, stagedImage |-> stagedImage, stagedFile |-> stagedFile]

\* onInputChange={setInputValue}
setInputValue(value) ==
    /\ inputValue' = value
    /\ lastCall' = [op |-> "setInputValue", arg |-> value, before |-> ChatState]
    /\ UNCHANGED <<stagedImage, stagedFile, sent, voiceVars, renderVars>>

\* a handleStageImage that leaves the staged file in place
handleStageImageKeepsFile(file) ==
    /\ stagedImage' = file
    /\ lastCall' = [op |-> "handleStageImage", arg |-> file, before |-> ChatState]
    /\ UNCHANGED <<stagedFile, inputValue, sent, voiceVars, renderVars>>

\* if (file) setStagedFile(null); setStagedImage(file)
handleStageImage(file) ==
    /\ stagedFile' = (IF file # Null THEN Null ELSE stagedFile)
    /\ stagedImage' = file
    /\ lastCall' = [op |-> "handleStageImage", arg |-> file, before |-> ChatState]
    /\ UNCHANGED <<inputValue, sent, voiceVars, renderVars>>

\* if (file) setStagedImage(null); setStagedFile(file)
handleStageFile(file) ==
    /\ stagedImage' = (IF file # Null THEN Null ELSE stagedImage)
    /\ stagedFile' = file
    /\ lastCall' = [op |-> "handleStageFile", arg |-> file, before |-> ChatState]
    /\ UNCHANGED <<inputValue, sent, voiceVars, renderVars>>

\* sendMessage(inputValue, selectedImageApi, stagedImage, stagedFile);
\* setInputValue(''); setStagedImage(null); setStagedFile(null)
handleSendMessage ==
    /\ Len(sent) < MaxSends
    /\ sent' = Append(sent, [prompt |-> inputValue, imageFile |-> stagedImage,
                             analysisFile |-> stagedFile])
    /\ inputValue' = ""
    /\ stagedImage' = Null
    /\ stagedFile' = Null
    /\ lastCall' = [op |-> "handleSendMessage", arg |-> Null, before |-> ChatState]
    /\ UNCHANGED <<voiceVars, renderVars>>

InitChat ==
    /\ RenderIdle
    /\ AppIdle

NextChat ==
    \/ \E value \in InputValues : setInputValue(value)
    \/ \E file \in Files \cup {Null} : handleStageImage(file)
    \/ \E file \in Files \cup {Null} : handleStageFile(file)
    \/ handleSendMessage

SpecChat == InitChat /\ [][NextChat]_vars

(***************************************************************************)
(* The voice settings of App and SettingsModal.                            *)
(***************************************************************************)
MaxCalls == 2

\* positions of the slider (min 10, max 90, step 10) that the model moves it to
Sensitivities == {10, 50, 90}

\* what localStorage holds under 'jiamVoiceSettings' when App mounts: nothing, a
\* text that JSON.parse rejects, a text with one member, or saved settings
StoredAtMount ==
    {[item |-> "absent", json |-> <<>>],
     [item |-> "garbage", json |-> <<>>],
     [item |-> "text", json |-> <<[key |-> "isTtsEnabled", value |-> TRUE]>>],
     SetItem([isWakeWordEnabled |-> FALSE, wakeWordSensitivity |-> 90, isTtsEnabled |-> TRUE])}

VoiceState ==
    [voiceSettings |-> voiceSettings, stored |-> stored, settings |-> settings, calls |-> calls]

\* onSettingsOpen: setSettingsModalVisible(true); the effect of SettingsModal
\* then runs with isVisible true: setSettings(currentSettings)
OpenSettingsKeepsDraft ==
    /\ ~isSettingsModalVisible
    /\ isSettingsModalVisible' = TRUE
    /\ lastCall' = [op |-> "onSettingsOpen", before |-> VoiceState]
    /\ UNCHANGED <<settings, voiceSettings, stored, calls, chatVars, renderVars>>

OpenSettings ==
    /\ ~isSettingsModalVisible
    /\ isSettingsModalVisible' = TRUE
    /\ settings' = voiceSettings
    /\ lastCall' = [op |-> "onSettingsOpen", before |-> VoiceState]
    /\ UNCHANGED <<voiceSettings, stored, calls, chatVars, renderVars>>

\* the controls of the modal: setSettings(s => ({ ...s, member: value }))
ToggleDraftTts(checked) ==
    /\ isSettingsModalVisible
    /\ settings' = [settings EXCEPT !.isTtsEnabled = checked]
    /\ lastCall' = [op |-> "setSettings", before |-> VoiceState]
    /\ UNCHANGED <<voiceSettings, stored, isSettingsModalVisible, calls, chatVars, renderVars>>

ToggleDraftWakeWord(checked) ==
    /\ isSettingsModalVisible
    /\ settings' = [settings EXCEPT !.isWakeWordEnabled = checked]
    /\ lastCall' = [op |-> "setSettings", before |-> VoiceState]
    /\ UNCHANGED <<voiceSettings, stored, isSettingsModalVisible, calls, chatVars, renderVars>>

SlideDraftSensitivity(value) ==
    /\ isSettingsModalVisible
    /\ settings' = [settings EXCEPT !.wakeWordSensitivity = value]
    /\ lastCall' = [op |-> "setSettings", before |-> VoiceState]
    /\ UNCHANGED <<voiceSettings, stored, isSettingsModalVisible, calls, chatVars, renderVars>>

\* setVoiceSettings(newSettings); localStorage.setItem(..., JSON.stringify(newSettings))
handleSaveSettings(newSettings) ==
    /\ voiceSettings' = newSettings
    /\ stored' = SetItem(newSettings)
    /\ calls' = calls + 1

\* the Save button of the modal: onSave(settings); onClose()
handleSave ==
    /\ isSettingsModalVisible
    /\ calls < MaxCalls
    /\ handleSaveSettings(settings)
    /\ isSettingsModalVisible' = FALSE
    /\ lastCall' = [op |-> "handleSave", before |-> VoiceState]
    /\ UNCHANGED <<settings, chatVars, renderVars>>

\* the close button of the modal: onClose()
CloseSettings ==
    /\ isSettingsModalVisible
    /\ isSettingsModalVisible' = FALSE
    /\ lastCall' = [op |-> "onClose", before |-> VoiceState]
    /\ UNCHANGED <<voiceSettings, stored, settings, calls, chatVars, renderVars>>

\* a handleToggleTts that changes the settings in memory only
handleToggleTtsUnsaved ==
    /\ calls < MaxCalls
    /\ LET newSettings == [voiceSettings EXCEPT !.isTtsEnabled = ~voiceSettings.isTtsEnabled]
       IN  /\ voiceSettings' = newSettings
           /\ settings' = (IF isSettingsModalVisible THEN newSettings ELSE settings)
    /\ calls' = calls + 1
    /\ lastCall' = [op |-> "handleToggleTts", before |-> VoiceState]
    /\ UNCHANGED <<stored, isSettingsModalVisible, chatVars, renderVars>>

\* setVoiceSettings(prev => { newSettings = { ...prev, isTtsEnabled: !prev.isTtsEnabled };
\* localStorage.setItem(...); return newSettings }); when the modal is visible
\* its effect runs on the new currentSettings: setSettings(currentSettings)
handleToggleTts ==
    /\ calls < MaxCalls
    /\ LET newSettings == [voiceSettings EXCEPT !.isTtsEnabled = ~voiceSettings.isTtsEnabled]
       IN  /\ voiceSettings' = newSettings
           /\ stored' = SetItem(newSettings)
           /\ settings' = (IF isSettingsModalVisible THEN newSettings ELSE settings)
    /\ calls' = calls + 1
    /\ lastCall' = [op |-> "handleToggleTts", before |-> VoiceState]
    /\ UNCHANGED <<isSettingsModalVisible, chatVars, renderVars>>

\* App mounts: useState(() => ...), useState(false); SettingsModal mounts:
\* useState(currentSettings)
InitSettings ==
    /\ RenderIdle
    /\ ChatInit
    /\ stored \in StoredAtMount
    /\ voiceSettings = Load(stored)
    /\ isSettingsModalVisible = FALSE
    /\ settings = voiceSettings
    /\ calls = 0
    /\ lastCall = NoOp

NextSettings ==
    \/ OpenSettings
    \/ \E checked \in BOOLEAN : ToggleDraftTts(checked)
    \/ \E checked \in BOOLEAN : ToggleDraftWakeWord(checked)
    \/ \E value \in Sensitivities : SlideDraftSensitivity(value)
    \/ handleSave
    \/ CloseSettings
    \/ handleToggleTts

SpecSettings == InitSettings /\ [][NextSettings]_vars

(***************************************************************************)
(* Helpers of the properties.                                              *)
(***************************************************************************)
Range(s) == {s[k] : k \in 1..Len(s)}

\* number of elements of s that lie in the set S
RECURSIVE CountIn(_, _)
CountIn(s, S) ==
    IF Len(s) = 0 THEN 0
    ELSE (IF s[1] \in S THEN 1 ELSE 0) + CountIn(Tail(s), S)

\* the part of html that the iteration e of the loop appended
Segment(e) == SubSeq(html, e.from, e.to)

\* the lines that the iteration e of the loop consumed
LinesOf(e) == SubSeq(lines, e.first + 1, e.last + 1)

Returned == pc = "done"

(***************************************************************************)
(* C1: every '<', '>' and '&' of the input reaches the output in escaped   *)
(* form only: no element of the output is a raw '<' or '>' character (the  *)
(* only ones are inside the renderer's template tokens), and every '&'     *)
(* character of the output starts one of the entities &amp; &lt; &gt;.     *)
(***************************************************************************)
IsEntityAt(h, k) ==
    \/ At(h, k, <<"&", "a", "m", "p", ";">>)
    \/ At(h, k, <<"&", "l", "t", ";">>)
    \/ At(h, k, <<"&", "g", "t", ";">>)

C1_ReservedEscaped ==
    /\ \A k \in 1..Len(html) : html[k] \notin {"<", ">"}
    /\ \A k \in 1..Len(html) : html[k] = "&" => IsEntityAt(html, k)

C1_Witness ==
    /\ Returned
    /\ {"<", ">", "&"} \subseteq Range(text)
    /\ {blocks[k].kind : k \in 1..Len(blocks)} = {"heading", "ul", "p"}
    /\ CountIn(html, {"&"}) = 9

(***************************************************************************)
(* C2: input text cannot change the structure of the emitted markup: in    *)
(* every emitted anchor, nothing between the opening of the href value and *)
(* the template's closing of it is a double quote (which would end the     *)
(* attribute value early and let the rest of the url add attributes).      *)
(***************************************************************************)
\* position of the first AnchorAttrs token at or after k, 0 when there is none
RECURSIVE NextAttrs(_, _)
NextAttrs(h, k) ==
    IF k > Len(h) THEN 0
    ELSE IF h[k] = AnchorAttrs THEN k
    ELSE NextAttrs(h, k + 1)

C2_HrefIntact ==
    \A k \in 1..Len(html) :
        html[k] = AnchorHref =>
            \A j \in (k + 1)..(NextAttrs(html, k) - 1) :
                html[j] # "\""

(***************************************************************************)
(* C3: at most one list is open at any point of the output, list tags are  *)
(* balanced and never nested, a closing tag has the kind of the last       *)
(* opening tag, every <li> lies inside a list, every heading, blockquote,  *)
(* rule and paragraph is emitted with no list open, the open list of the   *)
(* output is the one inList names, and no list is open at return.          *)
(***************************************************************************)
BlockOpeners ==
    {HeadingOpen(1), HeadingOpen(2), HeadingOpen(3), BlockquoteOpen, Hr, POpen}

\* the list open after the tokens h[k..], given the list open before them;
\* "bad" when a token breaks the list structure
RECURSIVE ListScan(_, _, _)
ListScan(h, k, open) ==
    IF k > Len(h) THEN open
    ELSE IF h[k] \in {UlOpen, OlOpen}
         THEN IF open = "null"
              THEN ListScan(h, k + 1, IF h[k] = UlOpen THEN "ul" ELSE "ol")
              ELSE "bad"
    ELSE IF h[k] \in {"</ul>", "</ol>"}
         THEN IF open # "null" /\ h[k] = ListClose(open)
              THEN ListScan(h, k + 1, "null")
              ELSE "bad"
    ELSE IF h[k] \in {LiOpen, LiClose}
         THEN IF open \in {"ul", "ol"} THEN ListScan(h, k + 1, open) ELSE "bad"
    ELSE IF h[k] \in BlockOpeners
         THEN IF open = "null" THEN ListScan(h, k + 1, open) ELSE "bad"
    ELSE ListScan(h, k + 1, open)

C3_ListsClosed ==
    /\ ListScan(html, 1, "null") = inList
    /\ Returned => ListScan(html, 1, "null") = "null"

C3_Witness ==
    /\ Returned
    /\ Len(blocks) = 3
    /\ blocks[1].kind = "ul"
    /\ blocks[2].kind = "ol"
    /\ blocks[3].kind \in {"p", "heading", "blockquote", "hr"}
    /\ CountIn(html, {"</ul>", "</ol>"}) = 2

(***************************************************************************)
(* C4: a list line followed at once by a list line of the other kind       *)
(* closes the first list and opens a new one: the second line's output is  *)
(* the closing tag of the first kind, the opening tag of the second kind   *)
(* and the item, right after the first line's closed item.                 *)
(***************************************************************************)
OtherKind(kind) == IF kind = "ul" THEN "ol" ELSE "ul"

C4_KindSwitch ==
    \A k \in 1..(Len(blocks) - 1) :
        LET a == blocks[k]
            b == blocks[k + 1]
        IN  (a.kind \in {"ul", "ol"} /\ b.kind = OtherKind(a.kind)) =>
                /\ html[a.to] = LiClose
                /\ b.from = a.to + 1
                /\ At(html, b.from, <<ListClose(a.kind), ListOpen(b.kind), LiOpen>>)
                /\ html[b.to] = LiClose

C4_Witness ==
    /\ Returned
    /\ Len(blocks) = 2
    /\ blocks[1].kind = "ul"
    /\ blocks[2].kind = "ol"
    /\ CountIn(html, {"a"}) = 2

(***************************************************************************)
(* C5: a paragraph is a maximal run: no two paragraph elements come from   *)
(* adjacent input lines (two iterations in a row consume adjacent lines).  *)
(***************************************************************************)
C5_ParagraphMaximal ==
    \A k \in 1..(Len(blocks) - 1) :
        ~(blocks[k].kind = "p" /\ blocks[k + 1].kind = "p")

(***************************************************************************)
(* C6: a line that the main loop classifies as heading, blockquote, rule   *)
(* or list item is never absorbed into a preceding paragraph: every line   *)
(* of a paragraph after its first is a paragraph line, and a structural    *)
(* line that follows a paragraph is rendered by the next iteration as its  *)
(* own block.                                                              *)
(***************************************************************************)
Structural == {"heading", "blockquote", "hr", "ul", "ol"}

C6_ParagraphStopsAtBlock ==
    \A k \in 1..Len(blocks) :
        blocks[k].kind = "p" =>
            /\ \A j \in (blocks[k].first + 1)..blocks[k].last :
                   Classify(lines[j + 1]) \notin Structural
            /\ LET j == blocks[k].last + 1
               IN  (j < Len(lines) /\ k < Len(blocks) /\ Classify(lines[j + 1]) \in Structural)
                       => (blocks[k + 1].kind = Classify(lines[j + 1]) /\ blocks[k + 1].first = j)

C6_Witness ==
    /\ Returned
    /\ Len(blocks) = 2
    /\ blocks[1].kind = "p"
    /\ blocks[1].last = 0
    /\ blocks[2].kind = "heading"
    /\ html[blocks[2].from] = HeadingOpen(1)

(***************************************************************************)
(* C7: a line is rendered as a horizontal rule exactly when it is three or *)
(* more repetitions of one character among '-', '*', '_', followed by      *)
(* whitespace at most; the rule line emits exactly one rule element.       *)
(***************************************************************************)
IsSameCharRule(line) ==
    LET run == SubSeq(line, 1, Len(line) - TrailingWs(line))
    IN  /\ Len(run) >= 3
        /\ run[1] \in RuleChars
        /\ \A k \in 1..Len(run) : run[k] = run[1]

C7_RuleExactlyWhen ==
    \A k \in 1..Len(blocks) :
        /\ (blocks[k].kind = "hr") <=> IsSameCharRule(lines[blocks[k].first + 1])
        /\ blocks[k].kind = "hr" => CountIn(Segment(blocks[k]), {Hr}) = 1

(***************************************************************************)
(* C8: a line is a heading exactly when its run of leading '#' has length  *)
(* 1, 2 or 3 and a whitespace character follows the run; the heading's     *)
(* level is the length of the run; a line with four or more leading '#'    *)
(* is consumed by a paragraph whose output keeps every '#' of its lines.   *)
(***************************************************************************)
Hashes(line) == RunLen(line, 1, {"#"})

IsHeadingLine(line) ==
    /\ Hashes(line) \in 1..3
    /\ Hashes(line) < Len(line)
    /\ line[Hashes(line) + 1] \in Whitespace

\* the iterations that consumed line j (0-based)
Consumers(j) == {k \in 1..Len(blocks) : blocks[k].first <= j /\ j <= blocks[k].last}

C8_HeadingExactlyWhen ==
    \A j \in 0..(i - 1) :
        /\ Cardinality(Consumers(j)) = 1
        /\ LET e == blocks[CHOOSE k \in Consumers(j) : TRUE]
               line == lines[j + 1]
           IN  /\ (e.kind = "heading") <=> IsHeadingLine(line)
               /\ e.kind = "heading" =>
                      /\ HeadingOpen(Hashes(line)) \in Range(Segment(e))
                      /\ html[e.to] = HeadingClose(Hashes(line))
                      /\ CountIn(Segment(e), BlockOpeners) = 1
               /\ Hashes(line) >= 4 =>
                      /\ e.kind = "p"
                      /\ CountIn(Segment(e), {"#"}) = CountIn(Join(LinesOf(e)), {"#"})

C8_Witness ==
    /\ Returned
    /\ Len(blocks) = 3
    /\ blocks[1].kind = "heading"
    /\ blocks[2].kind = "p"
    /\ Hashes(lines[2]) = 4
    /\ blocks[3].kind = "heading"
    /\ Len(lines[3]) > 2

(***************************************************************************)
(* C9: a maximal run of n lines that start with '>' gives exactly one      *)
(* blockquote element: the iteration consumes the whole run and nothing    *)
(* else, emits one opening and one closing tag, and between them the n     *)
(* line contents in input order, separated by n - 1 line breaks.  The line *)
(* after the run is consumed by the next iteration, whatever it is.  (The  *)
(* content of a line free of inline delimiters is compared up to           *)
(* surrounding whitespace.)                                                *)
(***************************************************************************)
InlineDelimiters == {"*", "_", "~", Backtick, "[", "]", "(", ")"}

\* the k-th piece of s when s is cut at its line breaks
Piece(s, k) == Split(s)[k]

C9_OneBlockquotePerRun ==
    \A k \in 1..Len(blocks) :
        LET e == blocks[k]
            n == e.last - e.first + 1
            opener == e.from + CountIn(Segment(e), {"</ul>", "</ol>"})
            body == SubSeq(html, opener + 1, e.to - 1)
        IN  e.kind = "blockquote" =>
                /\ \A j \in e.first..e.last : startsWithGt(lines[j + 1])
                /\ e.first > 0 => ~startsWithGt(lines[e.first])
                /\ e.last + 1 < Len(lines) => ~startsWithGt(lines[e.last + 2])
                /\ html[opener] = BlockquoteOpen
                /\ CountIn(Segment(e), {BlockquoteOpen}) = 1
                /\ CountIn(Segment(e), {BlockquoteClose}) = 1
                /\ html[e.to] = BlockquoteClose
                /\ CountIn(body, {"\n"}) = n - 1
                /\ \A m \in 1..n :
                       Range(lines[e.first + m]) \cap InlineDelimiters = {} =>
                           Trim(Piece(body, m)) = EscapeHtml(Trim(Suffix(lines[e.first + m], 2)))
                /\ (k < Len(blocks)) => blocks[k + 1].first = e.last + 1

C9_Witness ==
    /\ Returned
    /\ Len(blocks) = 2
    /\ blocks[1].kind = "blockquote"
    /\ blocks[1].last = 1
    /\ Len(lines[1]) = 1
    /\ Len(lines[2]) > 1
    /\ blocks[2].kind = "p"

(***************************************************************************)
(* C10: a text that holds one unmatched inline delimiter, and plain text   *)
(* besides, renders with no strong, em, del, code or anchor element, and   *)
(* the characters of the delimiter stand in the output.                    *)
(***************************************************************************)
UnmatchedDelimiters ==
    {<<"*", "*">>, <<"_", "_">>, <<"~", "~">>, <<Backtick>>, <<"[">>}

Plain == {<<>>, <<"a">>}

C10_UnmatchedLiteral ==
    \A d \in UnmatchedDelimiters : \A pre \in Plain : \A post \in Plain :
        (Returned /\ text = pre \o d \o post) =>
            /\ Range(html) \cap InlineTags = {}
            /\ html = <<POpen>> \o text \o <<PClose>>

(***************************************************************************)
(* C11: a text [label](url) renders as one anchor whose href value is      *)
(* exactly the escaped url and whose visible text is the label; the other  *)
(* inline rules leave the url alone.                                       *)
(***************************************************************************)
C11_LinkHrefExact ==
    \A l \in LinkLabels : \A u \in LinkUrls :
        (Returned /\ text = Link(l, u)) =>
            html = <<POpen, AnchorHref>> \o EscapeHtml(u) \o <<AnchorAttrs>> \o l
                       \o <<AnchorClose, PClose>>

(***************************************************************************)
(* C12: bold is applied before italic.  As claimed: for every content x    *)
(* free of '*' and '_', the texts **x** and __x__ render as exactly one    *)
(* strong span with content x and no em span.  As amended: the same, for   *)
(* x free of line breaks too and a text that the block pass does not take  *)
(* as a horizontal rule.                                                   *)
(***************************************************************************)
OneStrong(x) ==
    html = <<POpen, StrongOpen>> \o EscapeHtml(x) \o <<StrongClose, PClose>>

C13_BlankGivesEmpty ==
    (Returned /\ Range(text) \subseteq (Whitespace \cup {"\n"})) => html = <<>>

C13_Witness ==
    /\ Returned
    /\ Len(blocks) = 3
    /\ \A k \in 1..3 : blocks[k].kind = "blank"
    /\ " " \in Range(text)
    /\ html = <<>>

(***************************************************************************)
(* C16: in a blockquote every line, the first like the following ones,     *)
(* contributes its content with leading and trailing whitespace trimmed    *)
(* (stated for lines free of inline delimiters, whose formatted content is *)
(* the escaped content).                                                   *)
(***************************************************************************)
C16_QuoteTrimmedPerLine ==
    \A k \in 1..Len(blocks) :
        LET e == blocks[k]
            opener == e.from + CountIn(Segment(e), {"</ul>", "</ol>"})
            body == SubSeq(html, opener + 1, e.to - 1)
        IN  e.kind = "blockquote" =>
                \A m \in 1..(e.last - e.first + 1) :
                    Range(lines[e.first + m]) \cap InlineDelimiters = {} =>
                        Piece(body, m) = EscapeHtml(Trim(Suffix(lines[e.first + m], 2)))

(***************************************************************************)
(* C17: a text made of one code span renders as one code element whose     *)
(* content is the escaped text between the backticks, with no other        *)
(* element inside.                                                         *)
(***************************************************************************)
C17_CodeContentLiteral ==
    \A x \in CodeContents :
        (Returned /\ text = CodeSpan(x)) =>
            html = <<POpen, CodeOpen>> \o EscapeHtml(x) \o <<CodeClose, PClose>>

(***************************************************************************)
(* C18: a run of list lines of one kind is one list: the first line of the *)
(* run opens it, each line adds exactly one item, a following line of the  *)
(* same kind adds its item and no list tag.  A blank line emits the        *)
(* closing tag of the open list and nothing else, so a list line after it  *)
(* opens a new list.  At return the output holds one item per list line    *)
(* and as many opening as closing list tags.                               *)
(***************************************************************************)
ListKinds == {"ul", "ol"}

ListTags == {UlOpen, OlOpen, "</ul>", "</ol>"}

KindBefore(k) == IF k = 1 THEN "none" ELSE blocks[k - 1].kind

C18_ListRuns ==
    /\ \A k \in 1..Len(blocks) :
           LET e == blocks[k]
           IN  /\ e.kind \in ListKinds =>
                      /\ CountIn(Segment(e), {LiOpen}) = 1
                      /\ html[e.to] = LiClose
                      /\ IF KindBefore(k) = e.kind
                         THEN html[e.from] = LiOpen /\ CountIn(Segment(e), ListTags) = 0
                         ELSE /\ CountIn(Segment(e), {ListOpen(e.kind)}) = 1
                              /\ At(html, e.from + (IF KindBefore(k) \in ListKinds THEN 1 ELSE 0),
                                    <<ListOpen(e.kind), LiOpen>>)
               /\ e.kind = "blank" =>
                      Segment(e) = IF KindBefore(k) \in ListKinds
                                   THEN <<ListClose(KindBefore(k))>> ELSE <<>>
    /\ Returned =>
           /\ CountIn(html, {LiOpen}) = Cardinality({k \in 1..Len(blocks) : blocks[k].kind \in ListKinds})
           /\ CountIn(html, {UlOpen, OlOpen}) = CountIn(html, {"</ul>", "</ol>"})

C18_Witness ==
    /\ Returned
    /\ Len(blocks) = 3
    /\ blocks[1].kind = "ul"
    /\ blocks[2].kind = "blank"
    /\ blocks[3].kind = "ul"
    /\ CountIn(html, {UlOpen}) = 2
    /\ CountIn(html, {LiOpen}) = 2

(***************************************************************************)
(* C15: the scan terminates for every input; the line index never          *)
(* decreases and grows by at least one in every iteration of the loop;     *)
(* the iterations consume the lines in order, each line exactly once and   *)
(* none skipped (an iteration renders every line it consumes: one line, or *)
(* for a blockquote or paragraph as many lines as its output has line      *)
(* breaks plus one), and append their output in that order.                *)
(***************************************************************************)
MultiLineKinds == {"blockquote", "p"}

C15_InOrder ==
    /\ i <= Len(lines)
    /\ i = (IF blocks = <<>> THEN 0 ELSE blocks[Len(blocks)].last + 1)
    /\ \A k \in 1..Len(blocks) :
           LET e == blocks[k]
           IN  /\ e.first = (IF k = 1 THEN 0 ELSE blocks[k - 1].last + 1)
               /\ e.from = (IF k = 1 THEN 1 ELSE blocks[k - 1].to + 1)
               /\ e.first <= e.last
               /\ e.last < Len(lines)
               /\ e.to <= Len(html)
               /\ IF e.kind \in MultiLineKinds
                  THEN CountIn(Segment(e), {"\n"}) = e.last - e.first
                  ELSE e.last = e.first
    /\ \A j \in 0..(i - 1) : Cardinality(Consumers(j)) = 1
    /\ (Returned /\ text # <<>>) => (lines = Split(text) /\ i = Len(lines))

C15_Terminates ==
    /\ []C15_InOrder
    /\ [][i' >= i /\ ((pc = "loop" /\ pc' = "loop") => i' > i)]_vars
    /\ <>Returned

C15_Witness ==
    /\ Returned
    /\ Len(blocks) = 2
    /\ blocks[1].kind = "blockquote"
    /\ blocks[1].last = 1
    /\ blocks[2].kind = "p"
    /\ i = 3

(***************************************************************************)
(* C14: when two calls run with their steps interleaved in any order, each *)
(* call returns what it returns when it runs on its own on its input, and  *)
(* two calls on the same input return the same string.                     *)
(***************************************************************************)
C14_CallsIndependent ==
    /\ pc = "done" => html = renderSimpleMarkdown(text)
    /\ other.pc = "done" => other.html = renderSimpleMarkdown(other.text)
    /\ (pc = "done" /\ other.pc = "done" /\ text = other.text) => html = other.html

C14_Witness ==
    /\ pc = "done"
    /\ other.pc = "done"
    /\ overlapped
    /\ {text, other.text} = {<<"-", " ", "a", "\n", "-", " ", "a">>, <<"1", ".", " ", "a">>}
    /\ {html, other.html} =
           {<<UlOpen, LiOpen, "a", LiClose, LiOpen, "a", LiClose, ListClose("ul")>>,
            <<OlOpen, LiOpen, "a", LiClose, ListClose("ol")>>}

(***************************************************************************)
(* C19: in ChatInterface, after any sequence of handleStageImage,          *)
(* handleStageFile and handleSendMessage calls at most one of stagedImage  *)
(* and stagedFile is not null; staging null for one kind leaves the other  *)
(* kind as it was; handleSendMessage passes the input text and the staged  *)
(* values to sendMessage and then leaves the input empty and both staged   *)
(* values null.                                                            *)
(***************************************************************************)
C19_StagedExclusive ==
    /\ stagedImage = Null \/ stagedFile = Null
    /\ lastCall.op = "handleStageImage" =>
           /\ stagedImage = lastCall.arg
           /\ stagedFile = (IF lastCall.arg = Null THEN lastCall.before.stagedFile ELSE Null)
           /\ inputValue = lastCall.before.inputValue
    /\ lastCall.op = "handleStageFile" =>
           /\ stagedFile = lastCall.arg
           /\ stagedImage = (IF lastCall.arg = Null THEN lastCall.before.stagedImage ELSE Null)
           /\ inputValue = lastCall.before.inputValue
    /\ lastCall.op = "handleSendMessage" =>
           /\ sent # <<>>
           /\ sent[Len(sent)] =
                  [prompt |-> lastCall.before.inputValue, imageFile |-> lastCall.before.stagedImage,
                   analysisFile |-> lastCall.before.stagedFile]
           /\ inputValue = ""
           /\ stagedImage = Null
           /\ stagedFile = Null

C19_Witness ==
    /\ lastCall.op = "handleSendMessage"
    /\ sent = <<[prompt |-> "", imageFile |-> Null, analysisFile |-> "notes.pdf"],
                [prompt |-> "hi", imageFile |-> "photo.png", analysisFile |-> Null]>>
    /\ stagedImage = Null
    /\ inputValue = ""

(***************************************************************************)
(* C20: once handleSaveSettings or handleToggleTts has been called, the    *)
(* item 'jiamVoiceSettings' holds the voice settings in memory;            *)
(* handleToggleTts flips isTtsEnabled and nothing else; closing the modal  *)
(* without Save calls onSave zero times and leaves the settings and the    *)
(* item as they were; whenever the modal becomes visible its draft is the  *)
(* current settings.                                                       *)
(***************************************************************************)
C20_SettingsSaved ==
    /\ calls > 0 => (stored = SetItem(voiceSettings) /\ Load(stored) = voiceSettings)
    /\ lastCall.op = "handleToggleTts" =>
           voiceSettings = [lastCall.before.voiceSettings EXCEPT
                                !.isTtsEnabled = ~lastCall.before.voiceSettings.isTtsEnabled]
    /\ lastCall.op = "onClose" =>
           /\ ~isSettingsModalVisible
           /\ calls = lastCall.before.calls
           /\ voiceSettings = lastCall.before.voiceSettings
           /\ stored = lastCall.before.stored
    /\ lastCall.op = "onSettingsOpen" => (isSettingsModalVisible /\ settings = voiceSettings)

C20_Witness ==
    /\ lastCall.op = "onClose"
    /\ calls = 2
    /\ settings # voiceSettings
    /\ voiceSettings = [isWakeWordEnabled |-> FALSE, wakeWordSensitivity |-> 10,
                        isTtsEnabled |-> TRUE]
    /\ stored = SetItem(voiceSettings)

====
